---- MODULE Spec2Model ----
(***************************************************************************)
(* Model of the service supervisor of src/service_manager.py               *)
(* (class ServiceManager): in-memory ServiceInfo records, the PID files    *)
(* under logs/pids, the OS process table seen through psutil, and the      *)
(* supervisor's call stack, one action per step of a handler between two   *)
(* points where the worker processes can interleave (a sleep, a wait).     *)
(***************************************************************************)
EXTENDS Integers, Sequences, FiniteSets, TLC

\* ------------------------------------------------------------------ bounds
\* Number of process ids of the modelled OS process table.
MaxPid == 2
\* The wall clock saturates at MaxTime (every later instant reads MaxTime).
MaxTime == 4

\* ------------------------------------------------------- program constants
GraceSeconds == 2
RestartDelay == 2
SettleDelay == 3
RestartAllDelay == 3
StopTimeout == 10
MonitorInterval == 30

\* ------------------------------------------------------------ basic values
Services == {"smtp_server", "web_interface"}
UnknownService == "no_such_service"
Names == Services \cup {UnknownService}
PIDs == 1..MaxPid
None == 0
NoTime == -1
SampledCpu == 1
SampledMem == 1

\* ------------------------------------------------------------------ strings
\* A Python str is a sequence of one-character strings.
s_smtp_server == <<"s","m","t","p","_","s","e","r","v","e","r">>
s_web_interface == <<"w","e","b","_","i","n","t","e","r","f","a","c","e">>
s_dot_py == <<".","p","y">>
\* sys.executable of the interpreter that runs the supervisor
sys_executable == <<"p","y","t","h","o","n","3">>

Upper == <<"A","B","C","D","E","F","G","H","I","J","K","L","M",
           "N","O","P","Q","R","S","T","U","V","W","X","Y","Z">>
Lower == <<"a","b","c","d","e","f","g","h","i","j","k","l","m",
           "n","o","p","q","r","s","t","u","v","w","x","y","z">>

\* str.lower() on one character
LowerChar(c) ==
    IF \E i \in 1..Len(Upper) : Upper[i] = c
    THEN Lower[CHOOSE i \in 1..Len(Upper) : Upper[i] = c]
    ELSE c

\* str.lower()
StrLower(str) == [i \in 1..Len(str) |-> LowerChar(str[i])]

\* str.replace(old, '') for a one-character old
StrRemove(str, old) == SelectSeq(str, LAMBDA c : c # old)

\* needle in hay
StrContains(needle, hay) ==
    \E i \in 0..(Len(hay) - Len(needle)) :
        SubSeq(hay, i + 1, i + Len(needle)) = needle

\* ' '.join(args)
RECURSIVE StrJoin(_)
StrJoin(args) ==
    IF Len(args) = 0 THEN <<>>
    ELSE IF Len(args) = 1 THEN args[1]
    ELSE args[1] \o <<" ">> \o StrJoin(Tail(args))

\* str.split() on whitespace
RECURSIVE StrSplit(_)
StrSplit(str) ==
    IF Len(str) = 0 THEN <<>>
    ELSE IF str[1] = " " THEN StrSplit(Tail(str))
    ELSE LET stop == IF \E i \in 1..Len(str) : str[i] = " "
                     THEN (CHOOSE i \in 1..Len(str) :
                               /\ str[i] = " "
                               /\ \A j \in 1..(i - 1) : str[j] # " ") - 1
                     ELSE Len(str)
         IN <<SubSeq(str, 1, stop)>> \o StrSplit(SubSeq(str, stop + 1, Len(str)))

Digits == <<"0","1","2","3","4","5","6","7","8","9">>

\* str(n) for n >= 0
RECURSIVE IntToStr(_)
IntToStr(n) ==
    IF n < 10 THEN <<Digits[n + 1]>>
    ELSE IntToStr(n \div 10) \o <<Digits[(n % 10) + 1]>>

IsDigit(c) == \E i \in 1..10 : Digits[i] = c
DigitVal(c) == (CHOOSE i \in 1..10 : Digits[i] = c) - 1

\* str.strip()
RECURSIVE StrStrip(_)
StrStrip(str) ==
    IF Len(str) = 0 THEN str
    ELSE IF str[1] \in {" ", "\n"} THEN StrStrip(Tail(str))
    ELSE IF str[Len(str)] \in {" ", "\n"} THEN StrStrip(SubSeq(str, 1, Len(str) - 1))
    ELSE str

RECURSIVE DigitsValue(_)
DigitsValue(str) ==
    IF Len(str) = 0 THEN 0
    ELSE 10 * DigitsValue(SubSeq(str, 1, Len(str) - 1)) + DigitVal(str[Len(str)])

\* int(text): the value, or ValueError (modelled as -1) for a text that is no number
ValueError == -1
ParseInt(text) ==
    IF Len(text) > 0 /\ \A i \in 1..Len(text) : IsDigit(text[i])
    THEN DigitsValue(text)
    ELSE ValueError

\* --------------------------------------------------------------- registry
\* ServiceInfo.name as a str
ServiceName(s) == IF s = "smtp_server" THEN s_smtp_server ELSE s_web_interface

\* ServiceInfo.command: f'{sys.executable} <name>.py'
ServiceCommand(s) == sys_executable \o <<" ">> \o ServiceName(s) \o s_dot_py

\* ServiceInfo.port
ServicePort(s) == IF s = "smtp_server" THEN 1025 ELSE 5000

\* Command lines of the processes of the modelled host: the two workers as the
\* supervisor launches them (Popen(service.command.split())), and two foreign
\* programs: one of another user, which the supervisor may neither inspect nor
\* signal, and one of the same user whose command line happens to hold the
\* marker of smtp_server (and not that of web_interface).
ForeignCmds == {"sshd", "SmtpServer"}
CmdIds == Services \cup ForeignCmds
CmdArgs(c) ==
    CASE c \in Services -> StrSplit(ServiceCommand(c))
      [] c = "sshd" -> << <<"s","s","h","d">> >>
      [] c = "SmtpServer" ->
            << <<"S","m","t","p","S","e","r","v","e","r">>, <<"-","d">> >>

\* Processes of another user: psutil raises AccessDenied on inspecting or
\* signalling them.
AccessDenied(c) == c = "sshd"

\* -------------------------------------------------------------------- state
VARIABLES
    status,       \* ServiceInfo.status of each service
    pid,          \* ServiceInfo.pid (None = 0)
    start_time,   \* ServiceInfo.start_time (NoTime = None)
    cpu_percent,  \* ServiceInfo.cpu_percent
    memory_mb,    \* ServiceInfo.memory_mb
    pid_file,     \* logs/pids/<service>.pid: whether it exists, and its text
    procs,        \* the OS process table: pid -> process
    now,          \* the wall clock, in seconds
    process,      \* the psutil.Process handle stop_service holds, if any
    stack,        \* the supervisor's call stack, innermost frame first
    ret,          \* the value the last returned call gave its caller
    ev            \* what the last step did, if it was a step of the supervisor

vars == <<status, pid, start_time, cpu_percent, memory_mb, pid_file, procs,
          now, process, stack, ret, ev>>
info == <<status, pid, start_time, cpu_percent, memory_mb>>

DeadProc == [alive |-> FALSE, cmd |-> "none", ctime |-> 0]
NewProc(c) == [alive |-> TRUE, cmd |-> c, ctime |-> now]
\* psutil.Process(pid): the handle names one process (pid and creation time), so
\* it stops being "running" when that process exits, whoever gets the pid next.
NoProcess == [pid |-> None, running |-> FALSE]
ProcessHandle(p) == [pid |-> p, running |-> TRUE]
NoFile == [exists |-> FALSE, text |-> <<>>]
FileWith(text) == [exists |-> TRUE, text |-> text]

\* time.sleep(d) / the clock after d more seconds
After(d) == IF now + d > MaxTime THEN MaxTime ELSE now + d

\* The record of a step: its kind (call, step, spawn, signal, ret, reconcile),
\* the method and service it belongs to, the value returned, the path taken,
\* the pid spawned, signalled or tracked, and the seconds the step blocked;
\* for get_port_conflicts, the socket table it read and the list it returned.
EvSlept(kind, fn, svc, val, path, p, d) ==
    [kind |-> kind, fn |-> fn, svc |-> svc, val |-> val, path |-> path,
     pid |-> p, slept |-> d, conns |-> {}, conflicts |-> {}]
Ev(kind, fn, svc, val, path, p) == EvSlept(kind, fn, svc, val, path, p, 0)
NoEv == Ev("none", "none", "none", "None", "none", None)

Frame(fn, svc, force) ==
    [fn |-> fn, pc |-> "begin", svc |-> svc, force |-> force,
     success |-> TRUE, i |-> 1]
Idle == stack = <<>>
Top == Head(stack)
At(fn, pc) == stack # <<>> /\ Top.fn = fn /\ Top.pc = pc
Goto(pc) == stack' = <<[Top EXCEPT !.pc = pc]>> \o Tail(stack)
Call(frame, retpc) == stack' = <<frame, [Top EXCEPT !.pc = retpc]>> \o Tail(stack)
\* A return hands v to the calling frame; the result of an outermost call goes
\* to the caller of the supervisor (ev.val) and no frame keeps it.
Return(v) == stack' = Tail(stack) /\ ret' = IF Len(stack) = 1 THEN "None" ELSE v

\* The supervisor is between two commands, or blocked in a sleep or a wait (or
\* between the timeout of the wait and the kill, the race the handler catches):
\* the points at which the rest of the host is seen to act.
Blocked ==
    \/ Idle
    \/ At("start_service", "grace")
    \/ At("stop_service", "wait")
    \/ At("stop_service", "kill")
    \/ At("restart_service", "after_stop")
    \/ At("start_all", "after_smtp")
    \/ At("restart_all", "after_stop")
    \/ At("monitor_services", "begin")

\* --------------------------------------------------------- process inspector
\* psutil.pid_exists(pid)
pid_exists(p) == p \in PIDs /\ procs[p].alive

\* service_name.replace('_', '') in ' '.join(cmdline).lower(), line 125-126
MarkerInCmdline(s, cmdline) ==
    StrContains(StrRemove(ServiceName(s), "_"), StrLower(StrJoin(cmdline)))

\* The same, tabulated for the command lines of the modelled host.
MarkerTable == [s \in Services |-> [c \in CmdIds |-> MarkerInCmdline(s, CmdArgs(c))]]

\* ServiceManager._is_our_process
IsOurProcess(p, s) ==
    IF AccessDenied(procs[p].cmd) THEN FALSE
    ELSE MarkerTable[s][procs[p].cmd]

\* The service whose launch by the supervisor created process p (its command
\* line is the service's registered command), for a live p.
LaunchedFor(p, s) == procs[p].alive /\ procs[p].cmd = s
LiveLaunched(s) == {p \in PIDs : LaunchedFor(p, s)}

\* ---------------------------------------------------------------- PID store
\* ServiceManager._save_pid, as its two effects on the file: open(pid_file, 'w')
\* creates or truncates it, and the write (flushed by the close) fills it.
SavePidOpen(s) == pid_file' = [pid_file EXCEPT ![s] = FileWith(<<>>)]
SavePidWrite(s, p) == pid_file' = [pid_file EXCEPT ![s] = FileWith(IntToStr(p))]

\* ServiceManager._remove_pid
RemovePid(s) == pid_file' = [pid_file EXCEPT ![s] = NoFile]

\* ------------------------------------------------------------ reconciliation
\* One iteration of ServiceManager._load_pids on a fresh ServiceInfo: the
\* resulting status, pid, start_time and PID file of service s.
LoadPidTrusting(s) ==
    LET stopped(file) == [status |-> "stopped", pid |-> None,
                          start_time |-> NoTime, file |-> file]
        p == ParseInt(StrStrip(pid_file[s].text))
    IN  IF ~pid_file[s].exists THEN stopped(NoFile)
        ELSE IF p = ValueError THEN stopped(NoFile)
        ELSE IF ~pid_exists(p) THEN stopped(NoFile)
        ELSE [status |-> "running", pid |-> p,
              start_time |-> procs[p].ctime, file |-> pid_file[s]]
LoadPidWallClock(s) ==
    LET stopped(file) == [status |-> "stopped", pid |-> None,
                          start_time |-> NoTime, file |-> file]
        p == ParseInt(StrStrip(pid_file[s].text))
    IN  IF ~pid_file[s].exists THEN stopped(NoFile)
        ELSE IF p = ValueError THEN stopped(NoFile)
        ELSE IF ~pid_exists(p) THEN stopped(NoFile)
        ELSE IF IsOurProcess(p, s)
             THEN [status |-> "running", pid |-> p,
                   start_time |-> now, file |-> pid_file[s]]
             ELSE stopped(NoFile)
LoadPid(s) ==
    LET stopped(file) == [status |-> "stopped", pid |-> None,
                          start_time |-> NoTime, file |-> file]
        p == ParseInt(StrStrip(pid_file[s].text))
    IN  IF ~pid_file[s].exists THEN stopped(NoFile)
        ELSE IF p = ValueError THEN stopped(NoFile)
        ELSE IF ~pid_exists(p) THEN stopped(NoFile)
        ELSE IF IsOurProcess(p, s)
             THEN [status |-> "running", pid |-> p,
                   start_time |-> procs[p].ctime, file |-> pid_file[s]]
             ELSE stopped(NoFile)

\* ServiceManager.__init__: a new supervisor instance (after the previous one
\* exited or was killed at any point) starts from default ServiceInfo records
\* and reconciles them with the PID files.
NewSupervisor ==
    /\ status' = [s \in Services |-> LoadPid(s).status]
    /\ pid' = [s \in Services |-> LoadPid(s).pid]
    /\ start_time' = [s \in Services |-> LoadPid(s).start_time]
    /\ cpu_percent' = [s \in Services |-> 0]
    /\ memory_mb' = [s \in Services |-> 0]
    /\ pid_file' = [s \in Services |-> LoadPid(s).file]
    /\ stack' = <<>>
    /\ ret' = "None"
    /\ ev' = Ev("reconcile", "__init__", "all", "None",
                IF \E s \in Services : pid_file[s].exists /\ ~LoadPid(s).file.exists
                THEN "cleared" ELSE "kept", None)
    /\ process' = NoProcess
    /\ UNCHANGED <<procs, now>>

\* --------------------------------------------------------------- environment
\* A live process exits (on its own, by a crash, or through a pending signal).
ProcExit ==
    \E p \in PIDs :
        /\ Blocked
        /\ procs[p].alive
        /\ procs' = [procs EXCEPT ![p] = DeadProc]
        /\ process' = IF process.pid = p THEN [process EXCEPT !.running = FALSE]
                       ELSE process
        /\ ev' = NoEv
        /\ UNCHANGED <<info, pid_file, now, stack, ret>>

\* Another program starts under a free process id.
ForeignSpawn ==
    \E p \in PIDs, c \in ForeignCmds :
        /\ Blocked
        /\ ~procs[p].alive
        /\ procs' = [procs EXCEPT ![p] = NewProc(c)]
        /\ ev' = NoEv
        /\ UNCHANGED <<info, pid_file, now, process, stack, ret>>

\* ------------------------------------------------------------- entry points
\* The public methods that act on one named service, and those that act on all.
ServiceCommands == {"start_service", "stop_service", "restart_service",
                    "get_service_status"}
CompositeCommands == {"get_all_status", "start_all", "stop_all", "restart_all",
                      "monitor_services", "get_port_conflicts"}
TakesForce(fn) == fn \in {"stop_service", "stop_all"}

\* A caller invokes a method of the supervisor instance on a service name.
Invoke ==
    \E fn \in ServiceCommands, name \in Names, force \in BOOLEAN :
        /\ Idle
        /\ TakesForce(fn) \/ ~force
        /\ stack' = <<Frame(fn, name, force)>>
        /\ ev' = Ev("call", fn, name, "None", "none", None)
        /\ UNCHANGED <<info, pid_file, procs, now, process, ret>>

\* A caller invokes a method of the supervisor instance that takes no name.
InvokeComposite ==
    \E fn \in CompositeCommands, force \in BOOLEAN :
        /\ Idle
        /\ TakesForce(fn) \/ ~force
        /\ stack' = <<Frame(fn, "all", force)>>
        /\ ev' = Ev("call", fn, "all", "None", "none", None)
        /\ UNCHANGED <<info, pid_file, procs, now, process, ret>>

\* ------------------------------------------------------------ start_service
\* ServiceManager.start_service, lines 156-168: the unknown-name and
\* already-running returns, else the transition to 'starting'.
StartBeginAlways ==
    /\ At("start_service", "begin")
    /\ LET s == Top.svc IN
        IF s \notin Services
        THEN /\ Return("False")
             /\ ev' = Ev("ret", "start_service", s, "False", "unknown", None)
             /\ UNCHANGED <<info, pid_file, procs, now, process>>
        ELSE /\ status' = [status EXCEPT ![s] = "starting"]
             /\ Goto("popen")
             /\ ev' = Ev("step", "start_service", s, "None", "starting", None)
             /\ UNCHANGED <<pid, start_time, cpu_percent, memory_mb, pid_file,
                            procs, now, process, ret>>
StartBegin ==
    /\ At("start_service", "begin")
    /\ LET s == Top.svc IN
        IF s \notin Services
        THEN /\ Return("False")
             /\ ev' = Ev("ret", "start_service", s, "False", "unknown", None)
             /\ UNCHANGED <<info, pid_file, procs, now, process>>
        ELSE IF status[s] = "running" /\ pid[s] # None /\ pid_exists(pid[s])
        THEN /\ Return("True")
             /\ ev' = Ev("ret", "start_service", s, "True", "already", pid[s])
             /\ UNCHANGED <<info, pid_file, procs, now, process>>
        ELSE /\ status' = [status EXCEPT ![s] = "starting"]
             /\ Goto("popen")
             /\ ev' = Ev("step", "start_service", s, "None", "starting", None)
             /\ UNCHANGED <<pid, start_time, cpu_percent, memory_mb, pid_file,
                            procs, now, process, ret>>

\* Lines 170-197 and 213-216: subprocess.Popen either raises (the log file
\* cannot be opened, the interpreter cannot be executed, no process id is
\* free), which the handler turns into 'error' and False, or creates the
\* worker, whose pid and start time are recorded with status 'running'.
StartPopen ==
    /\ At("start_service", "popen")
    /\ LET s == Top.svc IN
        \/ /\ status' = [status EXCEPT ![s] = "error"]
           /\ Return("False")
           /\ ev' = Ev("ret", "start_service", s, "False", "exception", None)
           /\ UNCHANGED <<pid, start_time, cpu_percent, memory_mb, pid_file,
                          procs, now, process>>
        \/ \E p \in PIDs :
            /\ ~procs[p].alive
            /\ procs' = [procs EXCEPT ![p] = NewProc(s)]
            /\ pid' = [pid EXCEPT ![s] = p]
            /\ start_time' = [start_time EXCEPT ![s] = now]
            /\ status' = [status EXCEPT ![s] = "running"]
            /\ Goto("save")
            /\ ev' = Ev("spawn", "start_service", s, "None", "popen", p)
            /\ UNCHANGED <<cpu_percent, memory_mb, pid_file, now, process, ret>>

\* Line 200, first half of _save_pid: the PID file is created or truncated.
StartSaveOpen ==
    /\ At("start_service", "save")
    /\ SavePidOpen(Top.svc)
    /\ Goto("write")
    /\ ev' = Ev("step", "start_service", Top.svc, "None", "save_open", pid[Top.svc])
    /\ UNCHANGED <<info, procs, now, process, ret>>

\* Line 200, second half of _save_pid: str(pid) is written.
StartSaveWriteSkipped ==
    /\ At("start_service", "write")
    /\ Goto("grace")
    /\ ev' = Ev("step", "start_service", Top.svc, "None", "save_write", pid[Top.svc])
    /\ UNCHANGED <<info, pid_file, procs, now, process, ret>>
StartSaveWrite ==
    /\ At("start_service", "write")
    /\ SavePidWrite(Top.svc, pid[Top.svc])
    /\ Goto("grace")
    /\ ev' = Ev("step", "start_service", Top.svc, "None", "save_write", pid[Top.svc])
    /\ UNCHANGED <<info, procs, now, process, ret>>

\* Lines 203-211: after the grace sleep, a pid that no longer exists gives
\* 'error' and False; otherwise the start is reported successful.
StartGrace ==
    /\ At("start_service", "grace")
    /\ now' = After(GraceSeconds)
    /\ LET s == Top.svc IN
        IF ~pid_exists(pid[s])
        THEN /\ status' = [status EXCEPT ![s] = "error"]
             /\ Return("False")
             /\ ev' = EvSlept("ret", "start_service", s, "False", "crashed", pid[s],
                            GraceSeconds)
             /\ UNCHANGED <<pid, start_time, cpu_percent, memory_mb, pid_file,
                            procs, process>>
        ELSE /\ Return("True")
             /\ ev' = EvSlept("ret", "start_service", s, "True", "started", pid[s],
                            GraceSeconds)
             /\ UNCHANGED <<info, pid_file, procs, process>>

\* ------------------------------------------------------------- stop_service
\* Lines 260-266: the state of a confirmed stop.
StopFinishKeepsRecord(s) ==
    /\ status' = [status EXCEPT ![s] = "stopped"]
    /\ pid' = [pid EXCEPT ![s] = None]
    /\ start_time' = [start_time EXCEPT ![s] = NoTime]
    /\ cpu_percent' = [cpu_percent EXCEPT ![s] = 0]
    /\ memory_mb' = [memory_mb EXCEPT ![s] = 0]
    /\ UNCHANGED pid_file
StopFinish(s) ==
    /\ status' = [status EXCEPT ![s] = "stopped"]
    /\ pid' = [pid EXCEPT ![s] = None]
    /\ start_time' = [start_time EXCEPT ![s] = NoTime]
    /\ cpu_percent' = [cpu_percent EXCEPT ![s] = 0]
    /\ memory_mb' = [memory_mb EXCEPT ![s] = 0]
    /\ RemovePid(s)

\* Lines 234-238 and 270-275: the pid is already gone, or psutil raised
\* NoSuchProcess or AccessDenied.
StopGoneKeepsRecord(s) ==
    /\ status' = [status EXCEPT ![s] = "stopped"]
    /\ pid' = [pid EXCEPT ![s] = None]
    /\ UNCHANGED <<start_time, cpu_percent, memory_mb, pid_file>>
StopGone(s) ==
    /\ status' = [status EXCEPT ![s] = "stopped"]
    /\ pid' = [pid EXCEPT ![s] = None]
    /\ RemovePid(s)
    /\ UNCHANGED <<start_time, cpu_percent, memory_mb>>

\* Lines 220-231: the unknown-name and already-stopped returns, else the
\* transition to 'stopping'.
StopBegin ==
    /\ At("stop_service", "begin")
    /\ LET s == Top.svc IN
        IF s \notin Services
        THEN /\ Return("False")
             /\ ev' = Ev("ret", "stop_service", s, "False", "unknown", None)
             /\ UNCHANGED <<info, pid_file, procs, now, process>>
        ELSE IF status[s] = "stopped" \/ pid[s] = None
        THEN /\ Return("True")
             /\ ev' = Ev("ret", "stop_service", s, "True", "already", None)
             /\ UNCHANGED <<info, pid_file, procs, now, process>>
        ELSE /\ status' = [status EXCEPT ![s] = "stopping"]
             /\ Goto("signal")
             /\ ev' = Ev("step", "stop_service", s, "None", "stopping", pid[s])
             /\ UNCHANGED <<pid, start_time, cpu_percent, memory_mb, pid_file,
                            procs, now, process, ret>>

\* Signals. process.send_signal(SIGTERM) (process.terminate() on Windows) and
\* process.kill() return once the signal is sent, not once the process is gone:
\* the signalled process exits later (ProcExit), or, for a SIGTERM it ignores,
\* not at all. The process table is therefore the same right after the call;
\* ev records which signal was sent to which pid.
Signalled(table, p) == table

\* Lines 233-252 and 270-275: a vanished pid or an AccessDenied on signalling
\* ends the call with success; force sends the kill and finishes at once; a
\* graceful stop sends the termination signal and starts to wait.
StopSignal ==
    /\ At("stop_service", "signal")
    /\ LET s == Top.svc
           p == pid[s]
       IN
        IF ~pid_exists(p)
        THEN /\ StopGone(s)
             /\ Return("True")
             /\ ev' = Ev("ret", "stop_service", s, "True", "gone", p)
             /\ UNCHANGED <<procs, now, process>>
        ELSE IF AccessDenied(procs[p].cmd)
        THEN /\ StopGone(s)
             /\ Return("True")
             /\ ev' = Ev("ret", "stop_service", s, "True", "denied", p)
             /\ UNCHANGED <<procs, now, process>>
        ELSE IF Top.force
        THEN /\ procs' = Signalled(procs, p)
             /\ StopFinish(s)
             /\ Return("True")
             /\ ev' = Ev("ret", "stop_service", s, "True", "force", p)
             /\ UNCHANGED <<now, process>>
        ELSE /\ procs' = Signalled(procs, p)
             /\ process' = ProcessHandle(p)
             /\ Goto("wait")
             /\ ev' = Ev("signal", "stop_service", s, "None", "term", p)
             /\ UNCHANGED <<info, pid_file, now, ret>>

\* Lines 255 and 260-268, process.wait(timeout=10) returns: the process exited
\* before the timeout was over.
StopWaitExit ==
    /\ At("stop_service", "wait")
    /\ ~process.running
    /\ \E d \in 0..(StopTimeout - 1) :
        /\ now' = After(d)
        /\ ev' = EvSlept("ret", "stop_service", Top.svc, "True", "exited",
                       process.pid, d)
    /\ StopFinish(Top.svc)
    /\ Return("True")
    /\ process' = NoProcess
    /\ UNCHANGED procs

\* Lines 255-257, process.wait(timeout=10) raises psutil.TimeoutExpired: the
\* process is still running when the timeout is over.
StopWaitForever ==
    /\ At("stop_service", "wait")
    /\ process.running
    /\ FALSE
    /\ UNCHANGED vars
StopWaitTimeoutEarly ==
    /\ At("stop_service", "wait")
    /\ process.running
    /\ Goto("kill")
    /\ ev' = Ev("step", "stop_service", Top.svc, "None", "timeout", process.pid)
    /\ UNCHANGED <<info, pid_file, procs, now, process, ret>>
StopWaitTimeout ==
    /\ At("stop_service", "wait")
    /\ process.running
    /\ now' = After(StopTimeout)
    /\ Goto("kill")
    /\ ev' = EvSlept("step", "stop_service", Top.svc, "None", "timeout",
                   process.pid, StopTimeout)
    /\ UNCHANGED <<info, pid_file, procs, process, ret>>

\* Lines 258-268 and 270-275: process.kill() after the timeout; on a process
\* that exited meanwhile it raises NoSuchProcess.
StopKillGivesUp ==
    /\ At("stop_service", "kill")
    /\ Return("False")
    /\ ev' = Ev("ret", "stop_service", Top.svc, "False", "timeout", process.pid)
    /\ process' = NoProcess
    /\ UNCHANGED <<info, pid_file, procs, now>>
StopKill ==
    /\ At("stop_service", "kill")
    /\ LET s == Top.svc
           p == process.pid
       IN
        IF process.running
        THEN /\ procs' = Signalled(procs, p)
             /\ StopFinish(s)
             /\ ev' = Ev("ret", "stop_service", s, "True", "escalated", p)
        ELSE /\ StopGone(s)
             /\ ev' = Ev("ret", "stop_service", s, "True", "vanished", p)
             /\ UNCHANGED procs
    /\ Return("True")
    /\ process' = NoProcess
    /\ UNCHANGED now

\* ------------------------------------------------------- get_service_status
\* ServiceManager._update_service_stats
UpdateServiceStats(s) ==
    IF pid[s] # None /\ pid_exists(pid[s])
    THEN IF AccessDenied(procs[pid[s]].cmd)
         THEN /\ cpu_percent' = [cpu_percent EXCEPT ![s] = 0]
              /\ memory_mb' = [memory_mb EXCEPT ![s] = 0]
         ELSE /\ cpu_percent' = [cpu_percent EXCEPT ![s] = SampledCpu]
              /\ memory_mb' = [memory_mb EXCEPT ![s] = SampledMem]
    ELSE UNCHANGED <<cpu_percent, memory_mb>>

\* Lines 299-311 of get_service_status, for a registered service.
RefreshStatusKeepsPid(s) ==
    IF status[s] = "running" /\ pid[s] # None
    THEN IF ~pid_exists(pid[s])
         THEN /\ status' = [status EXCEPT ![s] = "stopped"]
              /\ start_time' = [start_time EXCEPT ![s] = NoTime]
              /\ RemovePid(s)
              /\ UNCHANGED <<pid, cpu_percent, memory_mb>>
         ELSE /\ UpdateServiceStats(s)
              /\ UNCHANGED <<status, pid, start_time, pid_file>>
    ELSE UNCHANGED <<info, pid_file>>
RefreshStatus(s) ==
    IF status[s] = "running" /\ pid[s] # None
    THEN IF ~pid_exists(pid[s])
         THEN /\ status' = [status EXCEPT ![s] = "stopped"]
              /\ pid' = [pid EXCEPT ![s] = None]
              /\ start_time' = [start_time EXCEPT ![s] = NoTime]
              /\ RemovePid(s)
              /\ UNCHANGED <<cpu_percent, memory_mb>>
         ELSE /\ UpdateServiceStats(s)
              /\ UNCHANGED <<status, pid, start_time, pid_file>>
    ELSE UNCHANGED <<info, pid_file>>

\* ServiceManager.get_service_status
GetServiceStatus ==
    /\ At("get_service_status", "begin")
    /\ LET s == Top.svc IN
        IF s \notin Services
        THEN /\ Return("None")
             /\ ev' = Ev("ret", "get_service_status", s, "None", "unknown", None)
             /\ UNCHANGED <<info, pid_file>>
        ELSE /\ RefreshStatus(s)
             /\ Return("Info")
             /\ ev' = Ev("ret", "get_service_status", s, "Info", "info", pid[s])
    /\ UNCHANGED <<procs, now, process>>

\* ---------------------------------------------------------- restart_service
\* Lines 282-285: stop first.
RestartBegin ==
    /\ At("restart_service", "begin")
    /\ Call(Frame("stop_service", Top.svc, FALSE), "after_stop")
    /\ ev' = Ev("call", "stop_service", Top.svc, "None", "restart_service", None)
    /\ UNCHANGED <<info, pid_file, procs, now, process, ret>>

\* Lines 285-292: a failed stop ends the restart; else sleep, then start.
RestartAfterStopAnyway ==
    /\ At("restart_service", "after_stop")
    /\ now' = After(RestartDelay)
    /\ Call(Frame("start_service", Top.svc, FALSE), "after_start")
    /\ ev' = EvSlept("call", "start_service", Top.svc, "None",
                   "restart_service", None, RestartDelay)
    /\ UNCHANGED <<info, pid_file, procs, process, ret>>
RestartAfterStop ==
    /\ At("restart_service", "after_stop")
    /\ IF ret = "False"
       THEN /\ Return("False")
            /\ ev' = Ev("ret", "restart_service", Top.svc, "False", "stop_failed", None)
            /\ UNCHANGED now
       ELSE /\ now' = After(RestartDelay)
            /\ Call(Frame("start_service", Top.svc, FALSE), "after_start")
            /\ ev' = EvSlept("call", "start_service", Top.svc, "None",
                           "restart_service", None, RestartDelay)
            /\ UNCHANGED ret
    /\ UNCHANGED <<info, pid_file, procs, process>>

\* Line 292: the result of start is the result of restart.
RestartEnd ==
    /\ At("restart_service", "after_start")
    /\ Return(ret)
    /\ ev' = Ev("ret", "restart_service", Top.svc, ret, "start_result", None)
    /\ UNCHANGED <<info, pid_file, procs, now, process>>

\* ------------------------------------------------------ start_all / stop_all
\* self.services in iteration (insertion) order
ServiceOrder == <<"smtp_server", "web_interface">>

\* The frame of a composite operation with its local `success` updated by the
\* result of the call that just returned, and moved to pc.
NotedLast(pc) == [Top EXCEPT !.success = (ret = "True"), !.pc = pc]
Noted(pc) == [Top EXCEPT !.success = Top.success /\ ret = "True", !.pc = pc]

\* Lines 322-327: the SMTP server is started first.
StartAllBegin ==
    /\ At("start_all", "begin")
    /\ Call(Frame("start_service", "smtp_server", FALSE), "after_smtp")
    /\ ev' = Ev("call", "start_service", "smtp_server", "None", "start_all", None)
    /\ UNCHANGED <<info, pid_file, procs, now, process, ret>>

\* Lines 326-334: note the first result, sleep, then start the web interface.
StartAllNoSettle ==
    /\ At("start_all", "after_smtp")
    /\ stack' = <<Frame("start_service", "web_interface", FALSE), Noted("after_web")>>
                \o Tail(stack)
    /\ ev' = Ev("call", "start_service", "web_interface", "None", "start_all", None)
    /\ UNCHANGED <<info, pid_file, procs, now, process, ret>>
StartAllSettle ==
    /\ At("start_all", "after_smtp")
    /\ now' = After(SettleDelay)
    /\ stack' = <<Frame("start_service", "web_interface", FALSE), Noted("after_web")>>
                \o Tail(stack)
    /\ ev' = EvSlept("call", "start_service", "web_interface", "None", "start_all",
                   None, SettleDelay)
    /\ UNCHANGED <<info, pid_file, procs, process, ret>>

\* Lines 333-336
StartAllEnd ==
    /\ At("start_all", "after_web")
    /\ LET v == IF Noted("done").success THEN "True" ELSE "False" IN
        /\ Return(v)
        /\ ev' = Ev("ret", "start_all", "all", v, "done", None)
    /\ UNCHANGED <<info, pid_file, procs, now, process>>

\* Lines 340-345: the web interface is stopped first.
StopAllBegin ==
    /\ At("stop_all", "begin")
    /\ Call(Frame("stop_service", "web_interface", Top.force), "after_web")
    /\ ev' = Ev("call", "stop_service", "web_interface", "None", "stop_all", None)
    /\ UNCHANGED <<info, pid_file, procs, now, process, ret>>

\* Lines 344-349: note the first result, then stop the SMTP server.
StopAllNext ==
    /\ At("stop_all", "after_web")
    /\ stack' = <<Frame("stop_service", "smtp_server", Top.force), Noted("after_smtp")>>
                \o Tail(stack)
    /\ ev' = Ev("call", "stop_service", "smtp_server", "None", "stop_all", None)
    /\ UNCHANGED <<info, pid_file, procs, now, process, ret>>

\* Lines 348-351
StopAllEnd ==
    /\ At("stop_all", "after_smtp")
    /\ LET v == IF Noted("done").success THEN "True" ELSE "False" IN
        /\ Return(v)
        /\ ev' = Ev("ret", "stop_all", "all", v, "done", None)
    /\ UNCHANGED <<info, pid_file, procs, now, process>>

\* -------------------------------------------------------------- restart_all
\* Lines 355-357
RestartAllBegin ==
    /\ At("restart_all", "begin")
    /\ Call(Frame("stop_all", "all", FALSE), "after_stop")
    /\ ev' = Ev("call", "stop_all", "all", "None", "restart_all", None)
    /\ UNCHANGED <<info, pid_file, procs, now, process, ret>>

\* Lines 357-362
RestartAllAfterStop ==
    /\ At("restart_all", "after_stop")
    /\ IF ret = "False"
       THEN /\ Return("False")
            /\ ev' = Ev("ret", "restart_all", "all", "False", "stop_failed", None)
            /\ UNCHANGED now
       ELSE /\ now' = After(RestartAllDelay)
            /\ Call(Frame("start_all", "all", FALSE), "after_start")
            /\ ev' = EvSlept("call", "start_all", "all", "None", "restart_all", None,
                           RestartAllDelay)
            /\ UNCHANGED ret
    /\ UNCHANGED <<info, pid_file, procs, process>>

\* Line 362
RestartAllEnd ==
    /\ At("restart_all", "after_start")
    /\ Return(ret)
    /\ ev' = Ev("ret", "restart_all", "all", ret, "start_result", None)
    /\ UNCHANGED <<info, pid_file, procs, now, process>>

\* --------------------------------------------------------- get_all_status
\* Lines 315-317: one get_service_status per service, in order.
GetAllStatusNext ==
    /\ At("get_all_status", "begin")
    /\ Top.i <= Len(ServiceOrder)
    /\ stack' = <<Frame("get_service_status", ServiceOrder[Top.i], FALSE),
                  [Top EXCEPT !.i = Top.i + 1]>> \o Tail(stack)
    /\ ev' = Ev("call", "get_service_status", ServiceOrder[Top.i], "None",
                "get_all_status", None)
    /\ UNCHANGED <<info, pid_file, procs, now, process, ret>>

\* Line 318
GetAllStatusEnd ==
    /\ At("get_all_status", "begin")
    /\ Top.i > Len(ServiceOrder)
    /\ Return("Info")
    /\ ev' = Ev("ret", "get_all_status", "all", "Info", "done", None)
    /\ UNCHANGED <<info, pid_file, procs, now, process>>

\* ------------------------------------------------------------ port conflicts
\* The entries psutil.net_connections() can hold: a listener on each service
\* port, a listener on another port, and a connection that is not a listener.
CONN_LISTEN == "LISTEN"
Conns == {[port |-> 1025, status |-> CONN_LISTEN],
          [port |-> 5000, status |-> CONN_LISTEN],
          [port |-> 5000, status |-> "ESTABLISHED"],
          [port |-> 22, status |-> CONN_LISTEN]}

\* ServiceManager.is_port_in_use on the socket table conns
is_port_in_use_any(port, conns) == \E conn \in conns : conn.port = port
is_port_in_use(port, conns) ==
    \E conn \in conns : conn.port = port /\ conn.status = CONN_LISTEN

\* ServiceManager.get_port_conflicts on the socket table conns
get_port_conflicts(conns) ==
    {<<s, ServicePort(s)>> : s \in
        {x \in Services : /\ ServicePort(x) # 0
                          /\ is_port_in_use(ServicePort(x), conns)
                          /\ status[x] # "running"}}

\* A call of get_port_conflicts, whatever the socket table holds at that time.
GetPortConflicts ==
    /\ At("get_port_conflicts", "begin")
    /\ \E conns \in SUBSET Conns :
        ev' = [Ev("ret", "get_port_conflicts", "all", "Conflicts", "done", None)
                  EXCEPT !.conns = conns, !.conflicts = get_port_conflicts(conns)]
    /\ Return("Conflicts")
    /\ UNCHANGED <<info, pid_file, procs, now, process>>

\* ---------------------------------------------------------- monitor_services
\* The fields of the ServiceInfo dataclass; hasattr(service, name)
ServiceInfoFields == {"name", "pid", "status", "port", "start_time",
                      "cpu_percent", "memory_mb", "command", "log_file"}
HasAttr(name) == name \in ServiceInfoFields

\* Lines 387-388: the status of the next service of the iteration is refreshed.
MonitorPoll ==
    /\ At("monitor_services", "begin")
    /\ Top.i <= Len(ServiceOrder)
    /\ Call(Frame("get_service_status", ServiceOrder[Top.i], FALSE), "checked")
    /\ ev' = Ev("call", "get_service_status", ServiceOrder[Top.i], "None",
                "monitor_services", None)
    /\ UNCHANGED <<info, pid_file, procs, now, process, ret>>

\* Lines 390-394: a stopped service is started again if it carries a true
\* auto_restart attribute.
MonitorChecked ==
    /\ At("monitor_services", "checked")
    /\ LET s == ServiceOrder[Top.i]
           next == [Top EXCEPT !.i = Top.i + 1, !.pc = "begin"]
       IN
        IF ret # "None" /\ status[s] = "stopped" /\ HasAttr("auto_restart")
        THEN /\ stack' = <<Frame("start_service", s, FALSE), next>> \o Tail(stack)
             /\ ev' = Ev("call", "start_service", s, "None", "monitor_services", None)
        ELSE /\ stack' = <<next>> \o Tail(stack)
             /\ ev' = Ev("step", "monitor_services", s, "None", "checked", None)
    /\ UNCHANGED <<info, pid_file, procs, now, process, ret>>

\* Line 396: the sleep between two iterations.
MonitorSleep ==
    /\ At("monitor_services", "begin")
    /\ Top.i > Len(ServiceOrder)
    /\ now' = After(MonitorInterval)
    /\ stack' = <<[Top EXCEPT !.i = 1]>> \o Tail(stack)
    /\ ev' = EvSlept("step", "monitor_services", "all", "None", "slept", None,
                   MonitorInterval)
    /\ UNCHANGED <<info, pid_file, procs, process, ret>>

\* Lines 401-403: an exception raised by the status query of an iteration
\* (before it changed anything) is logged; after the sleep the loop begins
\* its next iteration.
MonitorErrorFatal ==
    /\ Len(stack) >= 2
    /\ At("get_service_status", "begin")
    /\ stack[2].fn = "monitor_services"
    /\ stack' = Tail(Tail(stack))
    /\ ret' = "None"
    /\ ev' = Ev("ret", "monitor_services", "all", "None", "error", None)
    /\ UNCHANGED <<info, pid_file, procs, now, process>>
MonitorError ==
    /\ Len(stack) >= 2
    /\ At("get_service_status", "begin")
    /\ stack[2].fn = "monitor_services"
    /\ now' = After(MonitorInterval)
    /\ stack' = <<[stack[2] EXCEPT !.i = 1, !.pc = "begin"]>> \o Tail(Tail(stack))
    /\ ev' = EvSlept("step", "monitor_services", "all", "None", "error", None,
                   MonitorInterval)
    /\ UNCHANGED <<info, pid_file, procs, process, ret>>

\* Lines 398-400: KeyboardInterrupt ends the loop.
MonitorInterrupt ==
    /\ stack # <<>>
    /\ Top.fn = "monitor_services"
    /\ Return("None")
    /\ ev' = Ev("ret", "monitor_services", "all", "None", "interrupted", None)
    /\ UNCHANGED <<info, pid_file, procs, now, process>>

\* ------------------------------------------------------------ specification
\* A first supervisor instance on a host with no PID file and no worker, at
\* instant t of the clock.
InitAt(t) ==
    /\ status = [s \in Services |-> "stopped"]
    /\ pid = [s \in Services |-> None]
    /\ start_time = [s \in Services |-> NoTime]
    /\ cpu_percent = [s \in Services |-> 0]
    /\ memory_mb = [s \in Services |-> 0]
    /\ pid_file = [s \in Services |-> NoFile]
    /\ procs = [p \in PIDs |-> DeadProc]
    /\ now = t
    /\ process = NoProcess
    /\ stack = <<>>
    /\ ret = "None"
    /\ ev = NoEv

\* The host has been up for MaxTime seconds or more: the clock reads MaxTime
\* from the start, and timestamps no longer tell instants apart.
Init == InitAt(MaxTime)

\* The host has just booted: the first MaxTime seconds are told apart.
InitBoot == InitAt(0)

\* The steps of start_service, stop_service and get_service_status.
ServiceStep ==
    \/ StartBegin
    \/ StartPopen
    \/ StartSaveOpen
    \/ StartSaveWrite
    \/ StartGrace
    \/ StopBegin
    \/ StopSignal
    \/ StopWaitExit
    \/ StopWaitTimeout
    \/ StopKill
    \/ GetServiceStatus

\* The commands on one named service given to one supervisor instance, on a
\* host where the workers exit at any time.
NextInstance ==
    \/ ProcExit
    \/ Invoke
    \/ ServiceStep
    \/ RestartBegin
    \/ RestartAfterStop
    \/ RestartEnd

SpecInstance == Init /\ [][NextInstance]_vars

\* The same where, in addition, the supervisor is restarted at any point (each
\* command line invocation of main() constructs a new ServiceManager).
Next ==
    \/ NextInstance
    \/ NewSupervisor

Spec == Init /\ [][Next]_vars

\* The same on a host where other programs come and go as well, and take the
\* process ids the workers leave.
NextHost ==
    \/ Next
    \/ ForeignSpawn

SpecHost == Init /\ [][NextHost]_vars

\* The commands on all services, from the boot of the host on.
NextAll ==
    \/ ProcExit
    \/ NewSupervisor
    \/ InvokeComposite
    \/ ServiceStep
    \/ StartAllBegin
    \/ StartAllSettle
    \/ StartAllEnd
    \/ StopAllBegin
    \/ StopAllNext
    \/ StopAllEnd
    \/ RestartAllBegin
    \/ RestartAllAfterStop
    \/ RestartAllEnd
    \/ GetAllStatusNext
    \/ GetAllStatusEnd
    \/ MonitorPoll
    \/ MonitorChecked
    \/ MonitorSleep
    \/ MonitorError
    \/ MonitorInterrupt
    \/ GetPortConflicts

SpecAll == InitBoot /\ [][NextAll]_vars

\* One supervisor instance whose calls always run on: every step of an
\* operation in progress is eventually taken (the sleeps and the wait of the
\* code are bounded, and the supervisor is single-threaded).
OperationStep ==
    \/ ServiceStep
    \/ RestartBegin
    \/ RestartAfterStop
    \/ RestartEnd

SpecInstanceLive == SpecInstance /\ WF_vars(OperationStep)

\* A caller starts a registered service (main(): start --service name).
InvokeStart ==
    \E name \in Services :
        /\ Idle
        /\ stack' = <<Frame("start_service", name, FALSE)>>
        /\ ev' = Ev("call", "start_service", name, "None", "none", None)
        /\ UNCHANGED <<info, pid_file, procs, now, process, ret>>

\* Starts and supervisor restarts on the host of SpecHost, from its boot on:
\* creation times are told apart from the time of a later reconciliation.
NextHostBoot ==
    \/ ProcExit
    \/ ForeignSpawn
    \/ NewSupervisor
    \/ InvokeStart
    \/ StartBegin
    \/ StartPopen
    \/ StartSaveOpen
    \/ StartSaveWrite
    \/ StartGrace

SpecHostBoot == InitBoot /\ [][NextHostBoot]_vars

\* main(): the commands of the command line, on one service or on all.
NextCli ==
    \/ Next
    \/ NextAll

SpecCli == Init /\ [][NextCli]_vars

\* The exit code main() passes to sys.exit for the result of a command.
sys_exit_zero(success) == 0
sys_exit(success) == IF success THEN 0 ELSE 1

\* -------------------------------------------------------------- properties
\* The step just taken returned from method fn on service s.
Returned(fn, s) == ev.kind = "ret" /\ ev.fn = fn /\ ev.svc = s

\* The step being taken belongs to the supervisor (not to the environment, and
\* not the construction of a new supervisor).
SupervisorStep == ev'.kind \notin {"none", "reconcile"}

\* The process id a PID file names.
Recorded(s) == ParseInt(StrStrip(pid_file[s].text))

\* The step being taken calls method fn on service s from method parent.
Calls(fn, s, parent) ==
    /\ stack # <<>>
    /\ Len(stack') = Len(stack) + 1
    /\ stack'[1].fn = fn
    /\ stack'[1].svc = s
    /\ stack'[2].fn = parent

\* The frames of start_service and stop_service on the call stack.
PrimitiveFrames ==
    {i \in 1..Len(stack) : stack[i].fn \in {"start_service", "stop_service"}}

Min(a, b) == IF a < b THEN a ELSE b

\* C1: whenever no operation is in progress (after any sequence of completed
\* operations, and after a reconciliation), a service has a pid exactly when
\* its status is starting, running or stopping; stopped and error carry none.
C1_PidIffActive ==
    Idle => \A s \in Services :
        (pid[s] # None) <=> (status[s] \in {"starting", "running", "stopping"})

\* C2: for every service, at most one live process launched by the supervisor
\* for that service exists at any time.
C2_AtMostOneLive == \A s \in Services : Cardinality(LiveLaunched(s)) <= 1

\* C3: whenever stop returns success for a service, the service is stopped,
\* has no pid, and has no PID record, whatever its state before the call.
C3_StopSuccessMeansStopped ==
    \A s \in Services :
        (Returned("stop_service", s) /\ ev.val = "True")
            => (status[s] = "stopped" /\ pid[s] = None /\ ~pid_file[s].exists)

\* C4: a start called on a service that is running with its one live process
\* (the state a successful start leaves while the process stays alive) reports
\* success at once, spawns nothing, and changes neither the pid nor the PID
\* record: exactly that one live process remains.
C4_StartTwice ==
    [][\A s \in Services :
        (/\ At("start_service", "begin") /\ Top.svc = s
         /\ status[s] = "running" /\ pid[s] # None
         /\ LiveLaunched(s) = {pid[s]}
         /\ SupervisorStep)
        => (/\ ev'.kind = "ret" /\ ev'.val = "True"
            /\ pid'[s] = pid[s]
            /\ pid_file'[s] = pid_file[s]
            /\ procs' = procs
            /\ status'[s] = "running")]_vars

\* The second of two starts has returned success on the running service.
C4_Witness ==
    \E s \in Services :
        /\ Returned("start_service", s) /\ ev.val = "True" /\ ev.path = "already"
        /\ LiveLaunched(s) = {pid[s]}
        /\ pid_file[s] = FileWith(IntToStr(pid[s]))

\* C5: a stop called on a stopped service returns success at once, signals no
\* process, and leaves no PID record.
C5_StopStopped ==
    [][\A s \in Services :
        (/\ At("stop_service", "begin") /\ Top.svc = s
         /\ status[s] = "stopped"
         /\ SupervisorStep)
        => (/\ ev'.kind = "ret" /\ ev'.val = "True" /\ ev'.path = "already"
            /\ procs' = procs
            /\ process' = process
            /\ status'[s] = "stopped"
            /\ ~pid_file'[s].exists)]_vars

\* A stop has returned at once on a stopped service.
C5_Witness ==
    \E s \in Services :
        /\ Returned("stop_service", s) /\ ev.val = "True" /\ ev.path = "already"
        /\ status[s] = "stopped" /\ pid[s] = None
        /\ ~pid_file[s].exists

\* C6: at the construction of a supervisor, for each service: without a PID
\* record the service is stopped with no pid; with a record naming a live
\* process whose command line matches the service, it is running with that
\* pid and the record is kept; with a record naming a live process that does
\* not match, or a dead process, it is stopped and the record is cleared.
C6_Reconcile ==
    [][ev'.kind = "reconcile" => \A s \in Services :
        LET p == Recorded(s)
            live == pid_file[s].exists /\ p \in PIDs /\ procs[p].alive
            dead == pid_file[s].exists /\ p \in PIDs /\ ~procs[p].alive
            cleared == /\ status'[s] = "stopped" /\ pid'[s] = None
                       /\ ~pid_file'[s].exists
        IN  /\ ~pid_file[s].exists => cleared
            /\ (live /\ IsOurProcess(p, s))
                => (/\ status'[s] = "running" /\ pid'[s] = p
                    /\ pid_file'[s] = pid_file[s])
            /\ (live /\ ~IsOurProcess(p, s)) => cleared
            /\ dead => cleared]_vars

\* A reconciliation has restored one service from its record and cleared the
\* record of the other.
C6_Witness ==
    /\ ev.kind = "reconcile" /\ ev.path = "cleared"
    /\ \E s \in Services :
        /\ status[s] = "running" /\ pid_file[s].exists
        /\ pid[s] = Recorded(s) /\ procs[pid[s]].alive

\* C7: when a supervisor has started a service successfully and the worker
\* is still alive, a new supervisor constructed after it restores the
\* service as running with the pid of that worker.
C7_OwnWorkerRestored ==
    [][ev'.kind = "reconcile" => \A s \in Services :
        LET p == Recorded(s) IN
            (/\ Idle /\ status[s] = "running" /\ pid[s] = p
             /\ pid_file[s].exists /\ p \in PIDs /\ LaunchedFor(p, s))
                => (status'[s] = "running" /\ pid'[s] = p)]_vars

\* C8: when the launched process is gone at the end of the grace period,
\* start returns failure, the service is in error, and no PID record is left.
C8_CrashedStartCleared ==
    \A s \in Services :
        (Returned("start_service", s) /\ ev.path = "crashed")
            => (ev.val = "False" /\ status[s] = "error" /\ ~pid_file[s].exists)

\* C9: a non-forced stop waiting on a process that does not exit goes on only
\* once the whole timeout has passed, and then to the kill; the kill of the
\* still running process ends the stop with success, the service stopped with
\* no pid, and the PID record removed.
C9_Escalation ==
    [][\A s \in Services :
        /\ (/\ At("stop_service", "wait") /\ Top.svc = s
            /\ process.running
            /\ SupervisorStep)
           => (/\ ~Top.force
               /\ ev'.path = "timeout" /\ ev'.slept = StopTimeout
               /\ stack'[1].pc = "kill"
               /\ status'[s] = "stopping")
        /\ (/\ At("stop_service", "kill") /\ Top.svc = s
            /\ process.running
            /\ SupervisorStep)
           => (/\ ev'.kind = "ret" /\ ev'.val = "True" /\ ev'.path = "escalated"
               /\ ev'.pid = process.pid
               /\ status'[s] = "stopped" /\ pid'[s] = None
               /\ ~pid_file'[s].exists)]_vars

\* A graceful stop has returned after the escalation to the kill.
C9_Witness ==
    \E s \in Services :
        /\ Returned("stop_service", s) /\ ev.val = "True" /\ ev.path = "escalated"
        /\ status[s] = "stopped" /\ ~pid_file[s].exists

\* A web interface launched by start_all has a start time at least the settle
\* delay after the start time of the SMTP server (as far as the clock tells).
C10_SettledTimestamps ==
    (/\ ev.kind = "spawn" /\ ev.svc = "web_interface"
     /\ Len(stack) >= 2 /\ stack[2].fn = "start_all"
     /\ start_time["smtp_server"] # NoTime)
    => start_time["web_interface"]
           >= Min(MaxTime, start_time["smtp_server"] + SettleDelay)

\* start_all calls the start of the SMTP server first, and the start of the
\* web interface only once that call has returned and the settle delay has
\* been slept; stop_all calls the stop of the web interface first, and the
\* stop of the SMTP server once that call has returned.
C10_CallOrder ==
    /\ Calls("start_service", "smtp_server", "start_all")
        => At("start_all", "begin")
    /\ Calls("start_service", "web_interface", "start_all")
        => (/\ At("start_all", "after_smtp")
            /\ ev'.slept >= SettleDelay
            /\ now' = After(SettleDelay))
    /\ Calls("stop_service", "web_interface", "stop_all")
        => At("stop_all", "begin")
    /\ Calls("stop_service", "smtp_server", "stop_all")
        => At("stop_all", "after_web")

\* C10: start-all starts the SMTP server, waits the settle delay, then starts
\* the web interface, and stop-all stops them in the reverse order; the
\* operations on the two services never overlap, and the recorded start
\* times differ by the settle delay or more.
C10_Sequenced ==
    /\ [][C10_CallOrder]_vars
    /\ [](Cardinality(PrimitiveFrames) <= 1)
    /\ []C10_SettledTimestamps

\* start_all has launched the web interface after it launched the SMTP server.
C10_Witness ==
    /\ ev.kind = "spawn" /\ ev.svc = "web_interface"
    /\ Len(stack) >= 2 /\ stack[2].fn = "start_all"
    /\ start_time["smtp_server"] # NoTime
    /\ start_time["smtp_server"] + SettleDelay <= MaxTime
    /\ LiveLaunched("smtp_server") # {}


C13_RestartOrder ==
    [][\A s \in Names :
        /\ Calls("stop_service", s, "restart_service")
            => At("restart_service", "begin")
        /\ Calls("start_service", s, "restart_service")
            => (/\ At("restart_service", "after_stop") /\ ret = "True"
                /\ ev'.slept = RestartDelay)
        /\ (/\ At("restart_service", "after_stop") /\ Top.svc = s
            /\ ret = "False" /\ SupervisorStep)
            => (/\ ev'.kind = "ret" /\ ev'.fn = "restart_service"
                /\ ev'.val = "False"
                /\ stack' = Tail(stack)
                /\ procs' = procs)
        /\ (/\ At("restart_service", "after_start") /\ Top.svc = s
            /\ SupervisorStep)
            => (/\ ev'.kind = "ret" /\ ev'.fn = "restart_service"
                /\ ev'.val = ret
                /\ stack' = Tail(stack))]_vars

\* A restart of a registered service has returned the success of its start.
C13_Witness ==
    \E s \in Services :
        /\ Returned("restart_service", s) /\ ev.val = "True"
        /\ ev.path = "start_result"
        /\ status[s] = "running" /\ LaunchedFor(pid[s], s)

\* C14: start_all and stop_all call the operation on the second service
\* whatever the first returned, and return success exactly when both calls
\* returned success.
C14_EveryServiceAttempted ==
    [][/\ (At("start_all", "after_smtp") /\ SupervisorStep)
            => (/\ Calls("start_service", "web_interface", "start_all")
                /\ stack'[2].success = (ret = "True"))
       /\ (At("start_all", "after_web") /\ SupervisorStep)
            => (/\ ev'.kind = "ret" /\ ev'.fn = "start_all"
                /\ (ev'.val = "True") = (Top.success /\ ret = "True")
                /\ ev'.val \in {"True", "False"})
       /\ (At("stop_all", "after_web") /\ SupervisorStep)
            => (/\ Calls("stop_service", "smtp_server", "stop_all")
                /\ stack'[2].success = (ret = "True"))
       /\ (At("stop_all", "after_smtp") /\ SupervisorStep)
            => (/\ ev'.kind = "ret" /\ ev'.fn = "stop_all"
                /\ (ev'.val = "True") = (Top.success /\ ret = "True")
                /\ ev'.val \in {"True", "False"})]_vars

\* start_all has returned failure because the SMTP server did not start, with
\* the web interface started all the same.
C14_Witness ==
    /\ ev.kind = "ret" /\ ev.fn = "start_all" /\ ev.val = "False"
    /\ status["smtp_server"] = "error"
    /\ status["web_interface"] = "running"
    /\ LaunchedFor(pid["web_interface"], "web_interface")

\* C15: when an iteration of the monitor loop has found that the process of a
\* running service is gone (the status query turned the service from running
\* to stopped), the monitor calls start for that service.
C15_MonitorRelaunches ==
    [][\A s \in Services :
        (/\ At("monitor_services", "checked")
         /\ Returned("get_service_status", s) /\ ev.pid # None
         /\ status[s] = "stopped"
         /\ SupervisorStep)
            => Calls("start_service", s, "monitor_services")]_vars

\* C17: a status query on a service tracked as running whose pid is gone
\* leaves it stopped with no pid, cpu and memory zero and no PID record; one
\* whose pid is alive leaves status and pid unchanged.
C17_StatusSelfHeals ==
    [][\A s \in Services :
        (/\ At("get_service_status", "begin") /\ Top.svc = s
         /\ status[s] = "running" /\ pid[s] # None
         /\ SupervisorStep)
            => IF pid_exists(pid[s])
               THEN status'[s] = "running" /\ pid'[s] = pid[s]
               ELSE /\ status'[s] = "stopped" /\ pid'[s] = None
                    /\ cpu_percent'[s] = 0 /\ memory_mb'[s] = 0
                    /\ ~pid_file'[s].exists]_vars

\* C18: a stop that ended because the OS reported 'no such process' or
\* 'access denied' on the signal has returned success with the service
\* stopped, no pid, no start time, cpu and memory zero, and no PID record.
C18_StopOnOsError ==
    \A s \in Services :
        (Returned("stop_service", s) /\ ev.path \in {"denied", "vanished"})
            => (/\ ev.val = "True"
                /\ status[s] = "stopped" /\ pid[s] = None
                /\ start_time[s] = NoTime
                /\ cpu_percent[s] = 0 /\ memory_mb[s] = 0
                /\ ~pid_file[s].exists)

\* C19: a reconciliation or a status query that is denied access to the
\* recorded or tracked process leaves the service stopped with no pid.
C19_DeniedMeansStopped ==
    [][\A s \in Services :
        /\ (/\ ev'.kind = "reconcile"
            /\ pid_file[s].exists /\ Recorded(s) \in PIDs
            /\ procs[Recorded(s)].alive
            /\ AccessDenied(procs[Recorded(s)].cmd))
            => (status'[s] = "stopped" /\ pid'[s] = None)
        /\ (/\ At("get_service_status", "begin") /\ Top.svc = s
            /\ status[s] = "running" /\ pid[s] # None
            /\ pid_exists(pid[s]) /\ AccessDenied(procs[pid[s]].cmd)
            /\ SupervisorStep)
            => (status'[s] = "stopped" /\ pid'[s] = None)]_vars

\* No start, stop or status call is in progress.
BetweenOperations ==
    \A i \in 1..Len(stack) :
        stack[i].fn \notin {"start_service", "stop_service", "get_service_status"}

\* C20: between two operations, a service has a PID record exactly when it
\* has a pid in memory, and the record holds that pid.
C20_StoreAgrees ==
    BetweenOperations => \A s \in Services :
        /\ pid_file[s].exists <=> pid[s] # None
        /\ pid_file[s].exists => pid_file[s] = FileWith(IntToStr(pid[s]))

\* An operation has ended with a pid in memory and its record in the store.
C20_Witness ==
    /\ Idle
    /\ \E s \in Services :
        /\ pid[s] # None /\ pid_file[s] = FileWith(IntToStr(pid[s]))
    /\ \E s \in Services :
        /\ Returned("stop_service", s) /\ ev.path # "already"
        /\ pid[s] = None /\ ~pid_file[s].exists

\* C11: get_port_conflicts returns (name, port) for a service exactly when
\* the service has a port, the socket table holds a listener on that port,
\* and the tracked status of the service is not running.
C11_PortConflicts ==
    (ev.kind = "ret" /\ ev.fn = "get_port_conflicts")
        => /\ \A s \in Services :
                (<<s, ServicePort(s)>> \in ev.conflicts)
                    <=> (/\ ServicePort(s) # 0
                         /\ [port |-> ServicePort(s), status |-> "LISTEN"]
                                \in ev.conns
                         /\ status[s] # "running")
           /\ \A c \in ev.conflicts :
                c[1] \in Services /\ c[2] = ServicePort(c[1])

\* get_port_conflicts has reported the port of a service that is not running
\* and has not reported the port, also listened on, of a running service.
C11_Witness ==
    /\ ev.kind = "ret" /\ ev.fn = "get_port_conflicts"
    /\ \E s, r \in Services :
        /\ status[s] # "running" /\ <<s, ServicePort(s)>> \in ev.conflicts
        /\ status[r] = "running" /\ <<r, ServicePort(r)>> \notin ev.conflicts
        /\ [port |-> ServicePort(r), status |-> "LISTEN"] \in ev.conns

\* The monitor loop is running.
MonitorRunning == \E i \in 1..Len(stack) : stack[i].fn = "monitor_services"

\* C16: after an error raised inside an iteration the monitor loop sleeps the
\* interval and begins a next iteration; the loop ends only by an interrupt
\* (or with the supervisor process itself).
C16_MonitorSurvivesErrors ==
    [][/\ (ev'.fn = "monitor_services" /\ ev'.path = "error")
            => (/\ stack' # <<>>
                /\ stack'[1].fn = "monitor_services"
                /\ stack'[1].pc = "begin" /\ stack'[1].i = 1
                /\ ev'.slept = MonitorInterval)
       /\ (MonitorRunning /\ ~MonitorRunning')
            => (ev'.path = "interrupted" \/ ev'.kind = "reconcile")]_vars

\* The loop is at the beginning of an iteration after an error in the last.
C16_Witness ==
    /\ ev.fn = "monitor_services" /\ ev.path = "error"
    /\ At("monitor_services", "begin")

\* C21: a start or stop command of the command line, on one service or on
\* all, exits with code 0 exactly when every targeted service was started
\* (is running with a pid) respectively stopped (has no pid and no PID
\* record), and with a non-zero code otherwise.
C21_ExitCodes ==
    LET code == sys_exit(ev.val = "True")
        started(s) == status[s] = "running" /\ pid[s] # None
        stopped(s) == pid[s] = None /\ ~pid_file[s].exists
    IN  (Idle /\ ev.kind = "ret") =>
        /\ \A s \in Services :
            /\ (ev.fn = "start_service" /\ ev.svc = s)
                => ((code = 0) <=> started(s))
            /\ (ev.fn = "stop_service" /\ ev.svc = s)
                => ((code = 0) <=> stopped(s))
        /\ ev.fn = "start_all"
            => ((code = 0) <=> \A s \in Services : started(s))
        /\ ev.fn = "stop_all"
            => ((code = 0) <=> \A s \in Services : stopped(s))
        /\ ev.fn \in {"start_service", "stop_service", "start_all", "stop_all"}
            => code \in {0, 1}

\* start --service all has exited with a non-zero code after the start of one
\* service failed and the start of the other succeeded.
C21_Witness ==
    /\ Idle /\ ev.kind = "ret" /\ ev.fn = "start_all"
    /\ sys_exit(ev.val = "True") # 0
    /\ \E s, r \in Services : status[s] = "error" /\ status[r] = "running"

\* C22: a stop that moved a service to stopped (every successful return but
\* the already-stopped one) has reset pid, start_time, cpu_percent and
\* memory together.
C22_StopResetsAll ==
    \A s \in Services :
        (Returned("stop_service", s) /\ ev.val = "True" /\ ev.path # "already")
            => (/\ status[s] = "stopped" /\ pid[s] = None
                /\ start_time[s] = NoTime
                /\ cpu_percent[s] = 0 /\ memory_mb[s] = 0)

\* C23: from the spawn until the liveness check after the grace period, the
\* status of the service being started is starting (so a process that dies
\* within the grace window is never recorded as running).
C23_StartingUntilConfirmed ==
    \A s \in Services :
        (/\ stack # <<>> /\ Top.fn = "start_service" /\ Top.svc = s
         /\ Top.pc \in {"save", "write", "grace"})
            => status[s] = "starting"

\* C24: when stop has returned success through a kill (forced, or after the
\* timeout of a graceful stop), the killed process is no longer alive.
C24_KillConfirmed ==
    \A s \in Services :
        (/\ Returned("stop_service", s) /\ ev.val = "True"
         /\ ev.path \in {"force", "escalated"})
            => ~procs[ev.pid].alive

\* C25: a non-forced stop starts to wait only by sending the termination
\* signal; it goes to the kill only from the wait, with the process still
\* running after the whole timeout; a process found exited by the wait is
\* not sent a kill; a kill is sent at once, without a termination signal,
\* only by a forced stop.
C25_SignalOrder ==
    [][/\ (/\ stack' # <<>> /\ stack'[1].fn = "stop_service"
           /\ stack'[1].pc = "wait" /\ ~At("stop_service", "wait"))
            => (/\ At("stop_service", "signal") /\ ~Top.force
                /\ ev'.kind = "signal" /\ ev'.path = "term"
                /\ ev'.pid = pid[Top.svc])
       /\ (/\ stack' # <<>> /\ stack'[1].fn = "stop_service"
           /\ stack'[1].pc = "kill" /\ ~At("stop_service", "kill"))
            => (/\ At("stop_service", "wait") /\ process.running
                /\ ev'.slept = StopTimeout)
       /\ (ev'.fn = "stop_service" /\ ev'.path = "escalated")
            => (/\ At("stop_service", "kill") /\ ~Top.force
                /\ process.running /\ ev'.pid = process.pid)
       /\ (At("stop_service", "wait") /\ ~process.running /\ SupervisorStep)
            => (/\ ev'.kind = "ret" /\ ev'.path = "exited"
                /\ ev'.slept < StopTimeout
                /\ procs' = procs)
       /\ (ev'.fn = "stop_service" /\ ev'.path = "force")
            => (/\ At("stop_service", "signal") /\ Top.force
                /\ ev'.kind = "ret" /\ ev'.slept = 0)
       /\ (At("stop_service", "signal") /\ Top.force /\ SupervisorStep)
            => ev'.kind = "ret"]_vars

\* A graceful stop has returned because the process exited within the
\* timeout.
C25_Witness ==
    \E s \in Services :
        /\ Returned("stop_service", s) /\ ev.path = "exited"
        /\ ev.slept < StopTimeout
        /\ ~procs[ev.pid].alive

\* C26: a status query on a service tracked as running whose pid is now held
\* by a live process of another program that does not match the service
\* leaves the service stopped with its PID record cleared.
C26_ForeignPidIsStale ==
    [][\A s \in Services :
        (/\ At("get_service_status", "begin") /\ Top.svc = s
         /\ status[s] = "running" /\ pid[s] # None
         /\ pid_exists(pid[s])
         /\ procs[pid[s]].cmd \in ForeignCmds
         /\ ~IsOurProcess(pid[s], s)
         /\ SupervisorStep)
            => (/\ status'[s] = "stopped" /\ pid'[s] = None
                /\ ~pid_file'[s].exists)]_vars

\* C27: every call of start, stop or restart returns True or False in the
\* end, whatever the workers do; a step of start sleeps the grace period at
\* most, a step of stop the stop timeout at most.
C27_CallsReturn ==
    /\ \A fn \in {"start_service", "stop_service", "restart_service"} :
        (stack # <<>> /\ stack[Len(stack)].fn = fn)
            ~> (/\ Idle /\ ev.kind = "ret" /\ ev.fn = fn
                /\ ev.val \in {"True", "False"})
    /\ [][(SupervisorStep /\ ev'.kind # "call") =>
            /\ ev'.fn = "start_service" => ev'.slept \in {0, GraceSeconds}
            /\ ev'.fn = "stop_service" => ev'.slept <= StopTimeout]_vars

\* A stop of a worker that ignored the termination signal has returned.
C27_Witness ==
    /\ Idle /\ ev.kind = "ret" /\ ev.fn = "stop_service"
    /\ ev.path = "escalated" /\ ev.val = "True"
    /\ procs[ev.pid].alive

\* C28: a service that reconciliation restores as running has the creation
\* time of the recorded process as its start_time.
C28_RestoredStartTime ==
    [][ev'.kind = "reconcile" => \A s \in Services :
        status'[s] = "running"
            => (/\ pid_file[s].exists /\ Recorded(s) \in PIDs
                /\ pid'[s] = Recorded(s)
                /\ start_time'[s] = procs[Recorded(s)].ctime)]_vars

\* A reconciliation has restored a service whose recorded process was created
\* before the time of the reconciliation.
C28_Witness ==
    /\ ev.kind = "reconcile"
    /\ \E s \in Services :
        /\ status[s] = "running"
        /\ start_time[s] = procs[pid[s]].ctime
        /\ start_time[s] < now

\* C29: in every state, a service whose status is running has a pid and a
\* service whose status is stopped has none.
C29_StatusAndPid ==
    \A s \in Services :
        /\ status[s] = "running" => pid[s] # None
        /\ status[s] = "stopped" => pid[s] = None

\* A status query has turned a service whose worker died to stopped while
\* the other service is running.
C29_Witness ==
    \E s, r \in Services :
        /\ Returned("get_service_status", s) /\ ev.pid # None
        /\ status[s] = "stopped" /\ pid[s] = None
        /\ status[r] = "running" /\ pid[r] # None

\* C30: a step of start, stop, restart or status on a named service leaves
\* the state and the PID record of the other service unchanged, spawns only
\* a process of the named service and signals no live process of the other
\* service; on an unregistered name it changes nothing and returns failure
\* (status: nothing).
C30_OtherServiceUntouched ==
    [][(stack # <<>> /\ Top.fn \in ServiceCommands /\ SupervisorStep) =>
        LET s == Top.svc IN
        /\ \A r \in Services \ {s} :
            /\ status'[r] = status[r] /\ pid'[r] = pid[r]
            /\ start_time'[r] = start_time[r]
            /\ cpu_percent'[r] = cpu_percent[r]
            /\ memory_mb'[r] = memory_mb[r]
            /\ pid_file'[r] = pid_file[r]
        /\ ev'.kind = "spawn" => procs'[ev'.pid].cmd = s
        /\ (ev'.kind = "signal" \/ ev'.path \in {"force", "escalated"})
            => \A r \in Services \ {s} : ~LaunchedFor(ev'.pid, r)
        /\ s \notin Services
            => (/\ UNCHANGED <<info, pid_file, procs>>
                /\ ev'.kind = "ret" => ev'.val \in {"False", "None"})]_vars

====
